---- MODULE Spec2Model ----
(***************************************************************************)
(* A model of simple-http-server: the request parser (src/http_parser.py), *)
(* the response builder (src/http_response.py), the path resolver, the     *)
(* connection handler and the shutdown (src/server.py).                    *)
(*                                                                         *)
(* Text the code inspects (request bytes, paths, header values) is a       *)
(* sequence of one-character strings, so that split, strip, lower, the     *)
(* "../" test and the prefix test are computed as the code computes them.  *)
(* Text the code only carries (file contents, status messages, response    *)
(* header values) is a TLA+ string.                                        *)
(***************************************************************************)
EXTENDS Integers, Sequences, FiniteSets, TLC

(***************************************************************************)
(* str methods used by the code                                            *)
(***************************************************************************)

\* str.lower on the ASCII letters
LowerMap ==
  [c \in {"A","B","C","D","E","F","G","H","I","J","K","L","M",
          "N","O","P","Q","R","S","T","U","V","W","X","Y","Z"} |->
     CASE c = "A" -> "a" [] c = "B" -> "b" [] c = "C" -> "c" [] c = "D" -> "d"
       [] c = "E" -> "e" [] c = "F" -> "f" [] c = "G" -> "g" [] c = "H" -> "h"
       [] c = "I" -> "i" [] c = "J" -> "j" [] c = "K" -> "k" [] c = "L" -> "l"
       [] c = "M" -> "m" [] c = "N" -> "n" [] c = "O" -> "o" [] c = "P" -> "p"
       [] c = "Q" -> "q" [] c = "R" -> "r" [] c = "S" -> "s" [] c = "T" -> "t"
       [] c = "U" -> "u" [] c = "V" -> "v" [] c = "W" -> "w" [] c = "X" -> "x"
       [] c = "Y" -> "y" [] c = "Z" -> "z"]

lower(s) ==
  [i \in 1..Len(s) |-> IF s[i] \in DOMAIN LowerMap THEN LowerMap[s[i]] ELSE s[i]]

\* the characters str.strip removes
Whitespace == {" ", "\t", "\r", "\n"}

RECURSIVE lstrip(_)
lstrip(s) ==
  IF s # <<>> /\ Head(s) \in Whitespace THEN lstrip(Tail(s)) ELSE s

RECURSIVE rstrip(_)
rstrip(s) ==
  IF s # <<>> /\ s[Len(s)] \in Whitespace
  THEN rstrip(SubSeq(s, 1, Len(s) - 1))
  ELSE s

strip(s) == rstrip(lstrip(s))

startswith(s, prefix) ==
  Len(prefix) <= Len(s) /\ SubSeq(s, 1, Len(prefix)) = prefix

endswith(s, suffix) ==
  Len(suffix) <= Len(s) /\ SubSeq(s, Len(s) - Len(suffix) + 1, Len(s)) = suffix

\* s.find(sub) from position i on, counting positions from 1: the first
\* position at which sub occurs, 0 when it occurs nowhere
RECURSIVE find(_, _, _)
find(s, sub, i) ==
  IF i + Len(sub) - 1 > Len(s) THEN 0
  ELSE IF SubSeq(s, i, i + Len(sub) - 1) = sub THEN i
  ELSE find(s, sub, i + 1)

\* s.rfind(sub) up to position i, counting positions from 1
RECURSIVE rfind(_, _, _)
rfind(s, sub, i) ==
  IF i < 1 THEN 0
  ELSE IF i + Len(sub) - 1 <= Len(s) /\ SubSeq(s, i, i + Len(sub) - 1) = sub THEN i
  ELSE rfind(s, sub, i - 1)

\* sub in s
contains(s, sub) == find(s, sub, 1) # 0

\* s.split(sep): every piece between occurrences of the non-empty sep
RECURSIVE split(_, _)
split(s, sep) ==
  LET i == find(s, sep, 1)
  IN  IF i = 0 THEN <<s>>
      ELSE <<SubSeq(s, 1, i - 1)>> \o split(SubSeq(s, i + Len(sep), Len(s)), sep)

\* s.split(sep, 1): cut at the first occurrence only
split1(s, sep) ==
  LET i == find(s, sep, 1)
  IN  IF i = 0 THEN <<s>>
      ELSE <<SubSeq(s, 1, i - 1), SubSeq(s, i + Len(sep), Len(s))>>

(***************************************************************************)
(* dict and Optional                                                       *)
(***************************************************************************)

\* Optional[x]: None is the empty sequence, a present value x is <<x>>
None == <<>>
Some(x) == <<x>>

\* A dict is the sequence of its <<key, value>> items in insertion order.
dict_has(dct, key) == \E i \in 1..Len(dct) : dct[i][1] = key

\* dct.get(key, default)
RECURSIVE dict_get(_, _, _)
dict_get(dct, key, default) ==
  IF dct = <<>> THEN default
  ELSE IF Head(dct)[1] = key THEN Head(dct)[2]
  ELSE dict_get(Tail(dct), key, default)

\* dct[key] = value: an existing key keeps its position
dict_set(dct, key, value) ==
  IF dict_has(dct, key)
  THEN [i \in 1..Len(dct) |-> IF dct[i][1] = key THEN <<key, value>> ELSE dct[i]]
  ELSE Append(dct, <<key, value>>)

(***************************************************************************)
(* src/http_parser.py                                                      *)
(***************************************************************************)

CRLF == <<"\r", "\n">>

\* A byte that is no valid UTF-8: decode(errors='ignore') drops it.
InvalidByte == "0xFF"

decode_ignore(bytes) == SelectSeq(bytes, LAMBDA b : b # InvalidByte)

HTTPRequest(method, path, version, headers, body) ==
  [method |-> method, path |-> path, version |-> version,
   headers |-> headers, body |-> body]

\* The header loop of parse_http_request over lines[1:]: the dict built so
\* far, or the failure on a line without a colon.
RECURSIVE parse_header_lines(_, _)
parse_header_lines(lines, headers) ==
  IF lines = <<>> THEN [ok |-> TRUE, headers |-> headers]
  ELSE LET line == Head(lines) IN
       IF line = <<>> THEN parse_header_lines(Tail(lines), headers)
       ELSE IF ~contains(line, <<":">>) THEN [ok |-> FALSE]
       ELSE LET kv == split1(line, <<":">>)
            IN  parse_header_lines(Tail(lines),
                                   dict_set(headers, strip(kv[1]), strip(kv[2])))

\* A parser without the version check of lines 41-42.
parse_http_request_any_version(data) ==
  LET parts        == split1(data, CRLF \o CRLF)
      header_data  == parts[1]
      body         == IF Len(parts) > 1 THEN parts[2] ELSE <<>>
      lines        == split(decode_ignore(header_data), CRLF)
      request_line == split(lines[1], <<" ">>)
  IN  IF Len(request_line) # 3 THEN [ok |-> FALSE]
      ELSE LET hs == parse_header_lines(Tail(lines), <<>>)
           IN  IF ~hs.ok THEN [ok |-> FALSE]
               ELSE [ok |-> TRUE,
                     request |-> HTTPRequest(request_line[1], request_line[2],
                                             request_line[3], hs.headers,
                                             IF body # <<>> THEN Some(body) ELSE None)]

\* parse_http_request(data): [ok |-> TRUE, request |-> ...], or [ok |-> FALSE]
\* for the ValueError every failure is turned into.
parse_http_request(data) ==
  LET parts        == split1(data, CRLF \o CRLF)
      header_data  == parts[1]
      body         == IF Len(parts) > 1 THEN parts[2] ELSE <<>>
      lines        == split(decode_ignore(header_data), CRLF)
      request_line == split(lines[1], <<" ">>)
  IN  IF Len(request_line) # 3 THEN [ok |-> FALSE]
      ELSE IF ~startswith(request_line[3], <<"H", "T", "T", "P", "/">>)
           THEN [ok |-> FALSE]
      ELSE LET hs == parse_header_lines(Tail(lines), <<>>)
           IN  IF ~hs.ok THEN [ok |-> FALSE]
               ELSE [ok |-> TRUE,
                     request |-> HTTPRequest(request_line[1], request_line[2],
                                             request_line[3], hs.headers,
                                             IF body # <<>> THEN Some(body) ELSE None)]

(***************************************************************************)
(* src/http_response.py                                                    *)
(***************************************************************************)

STATUS_MESSAGES ==
  (200 :> "OK") @@ (400 :> "Bad Request") @@ (403 :> "Forbidden") @@
  (404 :> "Not Found") @@ (405 :> "Method Not Allowed") @@
  (500 :> "Internal Server Error")

add_header(self, name, value) ==
  [self EXCEPT !.headers = dict_set(self.headers, name, value)]

\* A response that is built without the Connection header of line 30.
HTTPResponse_no_connection(status_code, status_message, now) ==
  LET self0 == [status_code    |-> status_code,
                status_message |-> IF status_message # "" THEN status_message
                                   ELSE IF status_code \in DOMAIN STATUS_MESSAGES
                                        THEN STATUS_MESSAGES[status_code]
                                        ELSE "Unknown",
                headers        |-> <<>>,
                body           |-> None]
  IN  add_header(add_header(self0, "Server", "OTUS-HTTPServer/0.1"), "Date", now)

\* HTTPResponse.__init__; now is what _format_date returns.  An empty
\* status_message stands for the falsy values (None, "").
HTTPResponse(status_code, status_message, now) ==
  LET self0 == [status_code    |-> status_code,
                status_message |-> IF status_message # "" THEN status_message
                                   ELSE IF status_code \in DOMAIN STATUS_MESSAGES
                                        THEN STATUS_MESSAGES[status_code]
                                        ELSE "Unknown",
                headers        |-> <<>>,
                body           |-> None]
  IN  add_header(add_header(add_header(self0,
        "Server", "OTUS-HTTPServer/0.1"), "Date", now), "Connection", "keep-alive")

\* bool(self.body): None and b'' are falsy
body_truthy(self) == self.body # None /\ self.body[1] # ""

\* The response after to_bytes has run: to_bytes adds headers, and for an
\* error without a body sets the body.
to_bytes_self(self) ==
  IF body_truthy(self)
  THEN IF ~dict_has(self.headers, "Content-Length")
       THEN add_header(self, "Content-Length", ToString(Len(self.body[1])))
       ELSE self
  ELSE IF self.status_code >= 400 /\ ~dict_has(self.headers, "Content-Length")
       THEN LET error_body == "<html><body><h1>" \o ToString(self.status_code) \o " "
                                \o self.status_message \o "</h1></body></html>"
                withBody   == [self EXCEPT !.body = Some(error_body)]
            IN  add_header(add_header(withBody,
                  "Content-Length", ToString(Len(error_body))),
                  "Content-Type", "text/html")
       ELSE self

\* The bytes to_bytes returns: the lines that '\r\n' joins (built from the
\* headers as they are when to_bytes is entered), then the blank line, then
\* the body as it is when to_bytes ends.
to_bytes(self) ==
  LET status_line  == "HTTP/1.1 " \o ToString(self.status_code) \o " "
                        \o self.status_message
      header_lines == <<status_line>> \o
                      [i \in 1..Len(self.headers) |->
                         self.headers[i][1] \o ": " \o self.headers[i][2]]
      after        == to_bytes_self(self)
  IN  [header_lines |-> header_lines,
       body         |-> IF body_truthy(after) THEN after.body[1] ELSE ""]

(***************************************************************************)
(* src/utils.py                                                            *)
(***************************************************************************)

\* The dict MIME_TYPES, keys as the code spells them.
MIME_TYPES ==
  <<
    <<<<".", "h", "t", "m", "l">>, "text/html">>,
    <<<<".", "c", "s", "s">>, "text/css">>,
    <<<<".", "j", "s">>, "application/javascript">>,
    <<<<".", "j", "p", "g">>, "image/jpeg">>,
    <<<<".", "j", "p", "e", "g">>, "image/jpeg">>,
    <<<<".", "p", "n", "g">>, "image/png">>,
    <<<<".", "g", "i", "f">>, "image/gif">>,
    <<<<".", "s", "w", "f">>, "application/x-shockwave-flash">>,
    <<<<".", "t", "x", "t">>, "text/plain">>,
    <<<<".", "j", "s", "o", "n">>, "application/json">>,
    <<<<".", "x", "m", "l">>, "application/xml">>,
    <<<<".", "i", "c", "o">>, "image/x-icon">>>>

get_content_type(extension) ==
  dict_get(MIME_TYPES, lower(extension), "application/octet-stream")

\* chr(b) for the printable ASCII codes 32..126
Ascii ==
  <<
     " ", "!", "\"", "#", "$", "%", "&", "'", "(", ")", "*", "+",
     ",", "-", ".", "/", "0", "1", "2", "3", "4", "5", "6", "7",
     "8", "9", ":", ";", "<", "=", ">", "?", "@", "A", "B", "C",
     "D", "E", "F", "G", "H", "I", "J", "K", "L", "M", "N", "O",
     "P", "Q", "R", "S", "T", "U", "V", "W", "X", "Y", "Z", "[",
     "\\", "]", "^", "_", "chr(96)", "a", "b", "c", "d", "e", "f", "g",
     "h", "i", "j", "k", "l", "m", "n", "o", "p", "q", "r", "s",
     "t", "u", "v", "w", "x", "y", "z", "{", "|", "}", "~">>

chr(b) ==
  IF b \in 32..126 THEN Ascii[b - 31] ELSE "chr(" \o ToString(b) \o ")"

HexDigits ==
  <<"0", "1", "2", "3", "4", "5", "6", "7", "8", "9", "a", "b", "c", "d", "e", "f">>

IsHex(c) == find(HexDigits, lower(<<c>>), 1) # 0

HexVal(c) == find(HexDigits, lower(<<c>>), 1) - 1

\* s starts with an escape "%XX" of two hexadecimal digits
IsEscape(s) == Len(s) >= 3 /\ s[1] = "%" /\ IsHex(s[2]) /\ IsHex(s[3])

EscapedByte(s) == 16 * HexVal(s[2]) + HexVal(s[3])

\* How many continuation bytes the UTF-8 lead byte b takes; -1: b is no lead.
Utf8Need(b) ==
  IF b \in 194..223 THEN 1
  ELSE IF b \in 224..239 THEN 2
  ELSE IF b \in 240..244 THEN 3
  ELSE -1

\* The range of the first continuation byte after lead byte b.
Utf8Second(b) ==
  IF b = 224 THEN 160..191
  ELSE IF b = 237 THEN 128..159
  ELSE IF b = 240 THEN 144..191
  ELSE IF b = 244 THEN 128..143
  ELSE 128..191

\* s starts with the escapes of a whole UTF-8 sequence led by the first escape of s
Utf8Valid(s) ==
  LET need == Utf8Need(EscapedByte(s))
  IN  /\ need >= 1
      /\ \A k \in 1..need :
           LET r == SubSeq(s, 3 * k + 1, Len(s))
           IN  /\ IsEscape(r)
               /\ EscapedByte(r) \in (IF k = 1 THEN Utf8Second(EscapedByte(s))
                                      ELSE 128..191)

\* urllib.parse.unquote(s, errors='strict'): an escape of an ASCII byte
\* becomes its character, the escapes of a UTF-8 sequence become one
\* character (named by its bytes), a "%" that starts no escape stays, and
\* bytes that are no UTF-8 raise.
RECURSIVE unquote(_)
unquote(s) ==
  IF s = <<>> THEN [ok |-> TRUE, value |-> <<>>]
  ELSE IF ~IsEscape(s)
       THEN LET rest == unquote(Tail(s))
            IN  IF rest.ok THEN [ok |-> TRUE, value |-> <<Head(s)>> \o rest.value]
                ELSE rest
  ELSE LET b == EscapedByte(s) IN
       IF b < 128
       THEN LET rest == unquote(SubSeq(s, 4, Len(s)))
            IN  IF rest.ok THEN [ok |-> TRUE, value |-> <<chr(b)>> \o rest.value]
                ELSE rest
       ELSE IF ~Utf8Valid(s) THEN [ok |-> FALSE]
       ELSE LET n    == 3 * (Utf8Need(b) + 1)
                rest == unquote(SubSeq(s, n + 1, Len(s)))
            IN  IF rest.ok
                THEN [ok |-> TRUE,
                      value |-> <<"utf8(" \o ToString(b) \o "..)">> \o rest.value]
                ELSE rest

\* url_decode(path): the decoded path, or [ok |-> FALSE] for its ValueError
url_decode(path) == unquote(path)

(***************************************************************************)
(* The filesystem and pathlib                                              *)
(*                                                                         *)
(* A path is the sequence of its components below "/", each component a    *)
(* sequence of characters.  The filesystem does not change while the       *)
(* server runs.                                                            *)
(***************************************************************************)

Dir == [kind |-> "dir"]
File(content, outcome) == [kind |-> "file", content |-> content, read |-> outcome]
Link(target) == [kind |-> "link", target |-> target]
\* neither file, directory nor link: a FIFO, a socket, a device
Other == [kind |-> "other"]
Missing == [kind |-> "missing"]

(*  The layout the requests are served from ("->" is a symbolic link; read
    is what read_bytes does on the file):
      /srv/foo/index.html  a.txt  e.css (empty)  B.HTML
      /srv/foo/p.txt (PermissionError)   x.dat (OSError)
      /srv/foo/sub/index.html    /srv/foo/d/ (no index.html)
      /srv/foo/d2/index.html -> /etc/pw
      /srv/foo/out -> /etc/pw    in -> /srv/foo/a.txt   sib -> /srv/foobar/s.txt
      /srv/foo/dev (a FIFO)
      /srv/foobar/s.txt    /etc/pw
    No link of the layout leads back to itself.  *)
FS ==
  (<<<<"s", "r", "v">>>>
     :> Dir) @@
  (<<<<"s", "r", "v">>, <<"f", "o", "o">>>>
     :> Dir) @@
  (<<<<"s", "r", "v">>, <<"f", "o", "o">>, <<"i", "n", "d", "e", "x", ".", "h", "t", "m", "l">>>>
     :> File("<p>home</p>", "ok")) @@
  (<<<<"s", "r", "v">>, <<"f", "o", "o">>, <<"a", ".", "t", "x", "t">>>>
     :> File("hello", "ok")) @@
  (<<<<"s", "r", "v">>, <<"f", "o", "o">>, <<"e", ".", "c", "s", "s">>>>
     :> File("", "ok")) @@
  (<<<<"s", "r", "v">>, <<"f", "o", "o">>, <<"p", ".", "t", "x", "t">>>>
     :> File("private", "PermissionError")) @@
  (<<<<"s", "r", "v">>, <<"f", "o", "o">>, <<"x", ".", "d", "a", "t">>>>
     :> File("damaged", "OSError")) @@
  (<<<<"s", "r", "v">>, <<"f", "o", "o">>, <<"B", ".", "H", "T", "M", "L">>>>
     :> File("<b>B</b>", "ok")) @@
  (<<<<"s", "r", "v">>, <<"f", "o", "o">>, <<"s", "u", "b">>>>
     :> Dir) @@
  (<<<<"s", "r", "v">>, <<"f", "o", "o">>, <<"s", "u", "b">>, <<"i", "n", "d", "e", "x", ".", "h", "t", "m", "l">>>>
     :> File("<p>sub</p>", "ok")) @@
  (<<<<"s", "r", "v">>, <<"f", "o", "o">>, <<"d">>>>
     :> Dir) @@
  (<<<<"s", "r", "v">>, <<"f", "o", "o">>, <<"d", "2">>>>
     :> Dir) @@
  (<<<<"s", "r", "v">>, <<"f", "o", "o">>, <<"d", "2">>, <<"i", "n", "d", "e", "x", ".", "h", "t", "m", "l">>>>
     :> Link(<<<<"e", "t", "c">>, <<"p", "w">>>>)) @@
  (<<<<"s", "r", "v">>, <<"f", "o", "o">>, <<"o", "u", "t">>>>
     :> Link(<<<<"e", "t", "c">>, <<"p", "w">>>>)) @@
  (<<<<"s", "r", "v">>, <<"f", "o", "o">>, <<"i", "n">>>>
     :> Link(<<<<"s", "r", "v">>, <<"f", "o", "o">>, <<"a", ".", "t", "x", "t">>>>)) @@
  (<<<<"s", "r", "v">>, <<"f", "o", "o">>, <<"s", "i", "b">>>>
     :> Link(<<<<"s", "r", "v">>, <<"f", "o", "o", "b", "a", "r">>, <<"s", ".", "t", "x", "t">>>>)) @@
  (<<<<"s", "r", "v">>, <<"f", "o", "o">>, <<"d", "e", "v">>>>
     :> Other) @@
  (<<<<"s", "r", "v">>, <<"f", "o", "o", "b", "a", "r">>>>
     :> Dir) @@
  (<<<<"s", "r", "v">>, <<"f", "o", "o", "b", "a", "r">>, <<"s", ".", "t", "x", "t">>>>
     :> File("secret", "ok")) @@
  (<<<<"e", "t", "c">>>>
     :> Dir) @@
  (<<<<"e", "t", "c">>, <<"p", "w">>>>
     :> File("root:x", "ok"))

\* The values of Path(document_root).resolve() the server is started with.
DocRoots == {<<<<"s", "r", "v">>, <<"f", "o", "o">>>>, <<<<"s", "r", "v">>>>}

\* lstat: the node at a path whose directories are already resolved
lstat(p) ==
  IF p = <<>> THEN Dir ELSE IF p \in DOMAIN FS THEN FS[p] ELSE Missing

\* The components PurePosixPath keeps of a string: it drops the empty ones
\* and ".", and keeps "..".
parse_parts(s) ==
  SelectSeq(split(s, <<"/">>), LAMBDA c : c # <<>> /\ c # <<".">>)

\* base / s: a string that starts with "/" replaces the base
joinpath(base, s) ==
  IF startswith(s, <<"/">>) THEN parse_parts(s) ELSE base \o parse_parts(s)

\* os.path.realpath(strict=False), which Path.resolve() calls: ".." drops
\* the last resolved component, a link is replaced by its resolved target,
\* a missing component is kept as it is.
RECURSIVE realpath(_, _)
realpath(path, rest) ==
  IF rest = <<>> THEN path
  ELSE LET name    == Head(rest)
           newpath == Append(path, name)
       IN  IF name = <<".", ".">>
           THEN realpath(IF path = <<>> THEN <<>>
                         ELSE SubSeq(path, 1, Len(path) - 1), Tail(rest))
           ELSE IF lstat(newpath).kind = "link"
           THEN realpath(realpath(<<>>, lstat(newpath).target), Tail(rest))
           ELSE realpath(newpath, Tail(rest))

\* Path.resolve()
resolve(p) == realpath(<<>>, p)

\* stat, which follows links
stat(p) == lstat(resolve(p))

exists(p) == stat(p).kind # "missing"
is_dir(p) == stat(p).kind = "dir"
is_file(p) == stat(p).kind = "file"

\* str(path)
RECURSIVE str(_)
str(p) ==
  IF p = <<>> THEN <<"/">>
  ELSE IF Len(p) = 1 THEN <<"/">> \o p[1]
  ELSE str(SubSeq(p, 1, Len(p) - 1)) \o <<"/">> \o p[Len(p)]

\* Path.suffix: the last component from its last dot on, when that dot is
\* neither its first nor its last character
suffix(p) ==
  IF p = <<>> THEN <<>>
  ELSE LET name == p[Len(p)]
           i    == rfind(name, <<".">>, Len(name))
       IN  IF 1 < i /\ i < Len(name) THEN SubSeq(name, i, Len(name)) ELSE <<>>

(***************************************************************************)
(* src/server.py: HTTPServer.handle_request                                *)
(***************************************************************************)

\* The parameters req and root stand for request and self.document_root.
GET == <<"G", "E", "T">>
HEAD == <<"H", "E", "A", "D">>

\* A handler without the method check of lines 133-134.
method_allowed_any(req) == TRUE

\* request.method in ('GET', 'HEAD')
method_allowed(req) == req.method \in {GET, HEAD}

\* path.split('?')[0] when '?' in path
strip_query(path) ==
  IF contains(path, <<"?">>) THEN split(path, <<"?">>)[1] ELSE path

\* A handler without the check of lines 148-149.
is_traversal_never(path) == FALSE

\* '../' in path
is_traversal(path) == contains(path, <<".", ".", "/">>)

\* path[1:] when path.startswith('/')
strip_leading_slash(path) ==
  IF startswith(path, <<"/">>) THEN Tail(path) ELSE path

\* str(file_path).startswith(str(self.document_root))
within_document_root(file_path, root) ==
  startswith(str(file_path), str(root))

\* file_path.read_bytes(): the content, or the exception raised
read_bytes(file_path) ==
  LET node == stat(file_path)
  IN  IF node.read = "ok" THEN [ok |-> TRUE, content |-> node.content]
      ELSE [ok |-> FALSE, error |-> node.read]

\* A handler that never attaches the body (lines 210-211 dropped).
serve_file_no_body(req, file_path, now) ==
  LET got == read_bytes(file_path) IN
  IF ~got.ok
  THEN IF got.error = "PermissionError"
       THEN HTTPResponse(403, "Forbidden", now)
       ELSE HTTPResponse(500, "Internal Server Error", now)
  ELSE add_header(add_header(HTTPResponse(200, "OK", now),
         "Content-Type", get_content_type(suffix(file_path))),
         "Content-Length", ToString(Len(got.content)))

\* A handler that attaches the body whatever the method (the test of line 210 dropped).
serve_file_any_method(req, file_path, now) ==
  LET got == read_bytes(file_path) IN
  IF ~got.ok
  THEN IF got.error = "PermissionError"
       THEN HTTPResponse(403, "Forbidden", now)
       ELSE HTTPResponse(500, "Internal Server Error", now)
  ELSE [add_header(add_header(HTTPResponse(200, "OK", now),
          "Content-Type", get_content_type(suffix(file_path))),
          "Content-Length", ToString(Len(got.content)))
        EXCEPT !.body = Some(got.content)]

\* Reading the file and building the 200 response.
serve_file(req, file_path, now) ==
  LET got == read_bytes(file_path) IN
  IF ~got.ok
  THEN IF got.error = "PermissionError"
       THEN HTTPResponse(403, "Forbidden", now)
       ELSE HTTPResponse(500, "Internal Server Error", now)
  ELSE LET content  == got.content
           response == add_header(add_header(HTTPResponse(200, "OK", now),
                         "Content-Type", get_content_type(suffix(file_path))),
                         "Content-Length", ToString(Len(content)))
       IN  IF req.method = GET
           THEN [response EXCEPT !.body = Some(content)]
           ELSE response

\* Path.resolve() raises ValueError (embedded null byte) for a path that
\* holds the character chr(0); is_dir() and exists() answer False for it.
embedded_null(p) ==
  \E i \in DOMAIN p : \E j \in DOMAIN p[i] : p[i][j] = chr(0)

\* A handler without the directory branch of lines 179-185.
serve_path_no_index(req, candidate, root, now) ==
  IF embedded_null(candidate)
  THEN HTTPResponse(500, "Internal Server Error", now)
  ELSE
  LET file_path == resolve(candidate) IN
  IF ~within_document_root(file_path, root)
  THEN HTTPResponse(403, "Forbidden", now)
  ELSE IF ~exists(file_path)
  THEN HTTPResponse(404, "Not Found", now)
  ELSE IF ~is_file(file_path)
  THEN HTTPResponse(403, "Forbidden", now)
  ELSE serve_file(req, file_path, now)

\* From Path.resolve() to the response (lines 166-217); what resolve()
\* raises is caught at line 215.
serve_path(req, candidate, root, now) ==
  IF embedded_null(candidate)
  THEN HTTPResponse(500, "Internal Server Error", now)
  ELSE
  LET file_path == resolve(candidate) IN
  IF ~within_document_root(file_path, root)
  THEN HTTPResponse(403, "Forbidden", now)
  ELSE IF ~exists(file_path)
  THEN HTTPResponse(404, "Not Found", now)
  ELSE LET index_path == Append(file_path, <<"i", "n", "d", "e", "x", ".", "h", "t", "m", "l">>)
       IN  IF is_dir(file_path) /\ ~(exists(index_path) /\ is_file(index_path))
           THEN HTTPResponse(404, "Forbidden", now)
           ELSE LET final == IF is_dir(file_path) THEN index_path ELSE file_path
                IN  IF ~is_file(final)
                    THEN HTTPResponse(403, "Forbidden", now)
                    ELSE serve_file(req, final, now)

handle_request(req, root, now) ==
  IF ~method_allowed(req)
  THEN HTTPResponse(405, "Method Not Allowed", now)
  ELSE LET decoded == url_decode(req.path) IN
  IF ~decoded.ok
  THEN HTTPResponse(400, "Bad Request", now)
  ELSE LET path == strip_query(decoded.value) IN
  IF is_traversal(path)
  THEN HTTPResponse(403, "Forbidden", now)
  ELSE LET relative        == strip_leading_slash(path)
           ends_with_slash == endswith(relative, <<"/">>)
           file_path       == joinpath(root, relative)
       IN  IF ends_with_slash /\ ~is_dir(file_path)
           THEN HTTPResponse(404, "Not Found", now)
           ELSE serve_path(req, file_path, root, now)

(***************************************************************************)
(* The bytes a read returns                                                *)
(***************************************************************************)

POST == <<"P", "O", "S", "T">>
HTTP11 == <<"H", "T", "T", "P", "/", "1", ".", "1">>
HTTP10 == <<"H", "T", "T", "P", "/", "1", ".", "0">>
Connection == <<"C", "o", "n", "n", "e", "c", "t", "i", "o", "n">>
close == <<"c", "l", "o", "s", "e">>
keep_alive == <<"k", "e", "e", "p", "-", "a", "l", "i", "v", "e">>

RequestLine(method, path, version) ==
  method \o <<" ">> \o path \o <<" ">> \o version

HeaderLine(name, value) == name \o <<":", " ">> \o value

RECURSIVE JoinLines(_)
JoinLines(lines) ==
  IF lines = <<>> THEN <<>>
  ELSE IF Len(lines) = 1 THEN lines[1]
  ELSE lines[1] \o CRLF \o JoinLines(Tail(lines))

\* A message as a client sends it: its lines, the blank line, its body.
Message(lines, body) == JoinLines(lines) \o CRLF \o CRLF \o body

(*  The request paths:
    /index.html  /a.txt  /e.css  /p.txt  /x.dat  /B.HTML  /  /sub
    /sub/  /d  /d/  /d2/  /out  /in  /sib  /dev  /missing.txt  /a.txt/
    /../etc/pw  /sub/../a.txt  /%2e%2e/a.txt  /x../a.txt  /a.txt?x=../
    /a.txt%3F../  /a%2Etxt  /%ff  /%c3%a9  /%zz  //srv/foobar/s.txt
    //etc/pw  //etc/  //nodir/  /..  /sub/..  /foo/a.txt  /sub/../
    //etc/pw/  /%00  /%00/  *)
RequestPaths ==
  {
    <<"/", "i", "n", "d", "e", "x", ".", "h", "t", "m", "l">>,
    <<"/", "a", ".", "t", "x", "t">>,
    <<"/", "e", ".", "c", "s", "s">>,
    <<"/", "p", ".", "t", "x", "t">>,
    <<"/", "x", ".", "d", "a", "t">>,
    <<"/", "B", ".", "H", "T", "M", "L">>,
    <<"/">>,
    <<"/", "s", "u", "b">>,
    <<"/", "s", "u", "b", "/">>,
    <<"/", "d">>,
    <<"/", "d", "/">>,
    <<"/", "d", "2", "/">>,
    <<"/", "o", "u", "t">>,
    <<"/", "i", "n">>,
    <<"/", "s", "i", "b">>,
    <<"/", "d", "e", "v">>,
    <<"/", "m", "i", "s", "s", "i", "n", "g", ".", "t", "x", "t">>,
    <<"/", "a", ".", "t", "x", "t", "/">>,
    <<"/", ".", ".", "/", "e", "t", "c", "/", "p", "w">>,
    <<"/", "s", "u", "b", "/", ".", ".", "/", "a", ".", "t", "x", "t">>,
    <<"/", "%", "2", "e", "%", "2", "e", "/", "a", ".", "t", "x", "t">>,
    <<"/", "x", ".", ".", "/", "a", ".", "t", "x", "t">>,
    <<"/", "a", ".", "t", "x", "t", "?", "x", "=", ".", ".", "/">>,
    <<"/", "a", ".", "t", "x", "t", "%", "3", "F", ".", ".", "/">>,
    <<"/", "a", "%", "2", "E", "t", "x", "t">>,
    <<"/", "%", "f", "f">>,
    <<"/", "%", "c", "3", "%", "a", "9">>,
    <<"/", "%", "z", "z">>,
    <<"/", "/", "s", "r", "v", "/", "f", "o", "o", "b", "a", "r", "/", "s", ".", "t", "x", "t">>,
    <<"/", "/", "e", "t", "c", "/", "p", "w">>,
    <<"/", "/", "e", "t", "c", "/">>,
    <<"/", "/", "n", "o", "d", "i", "r", "/">>,
    <<"/", ".", ".">>,
    <<"/", "s", "u", "b", "/", ".", ".">>,
    <<"/", "f", "o", "o", "/", "a", ".", "t", "x", "t">>,
    <<"/", "s", "u", "b", "/", ".", ".", "/">>,
    <<"/", "/", "e", "t", "c", "/", "p", "w", "/">>,
    <<"/", "%", "0", "0">>,
    <<"/", "%", "0", "0", "/">>
  }

Methods == {GET, HEAD, POST}

\* One request per method and path, HTTP/1.1, no header.
PathData ==
  {Message(<<RequestLine(m, p, HTTP11)>>, <<>>) : m \in Methods, p \in RequestPaths}

A_TXT == <<"/", "a", ".", "t", "x", "t">>

\* Requests that differ in what the keep-alive decision reads: the version
\* and the Connection header (its name and value in several spellings).
KeepAliveData ==
  {Message(<<RequestLine(GET, A_TXT, HTTP11)>> \o hs, <<>>) :
     hs \in {<<>>,
             <<HeaderLine(Connection, close)>>,
             <<HeaderLine(Connection, <<"C", "l", "o", "s", "e">>)>>,
             <<HeaderLine(lower(Connection), close)>>}}
  \cup
  {Message(<<RequestLine(GET, A_TXT, HTTP10)>> \o hs, <<>>) :
     hs \in {<<>>,
             <<HeaderLine(Connection, <<"K", "e", "e", "p", "-", "A", "l", "i", "v", "e">>)>>}}

\* Requests answered with the error statuses of the handler.
StatusData ==
  {Message(<<RequestLine(GET, p, HTTP11)>>, <<>>) :
     p \in {<<"/", "m", "i", "s", "s", "i", "n", "g">>,
            <<"/", "x", ".", "d", "a", "t">>,
            <<"/", "%", "f", "f">>,
            <<"/", ".", ".", "/", "e", "t", "c", "/", "p", "w">>}}
  \cup {Message(<<RequestLine(POST, A_TXT, HTTP11)>>, <<"x", "=", "1">>)}

\* Bytes that parse_http_request rejects.
MalformedData ==
  {Message(<<<<"G", "A", "R", "B", "A", "G", "E">>>>, <<>>),
   \* two spaces: four tokens; HTTP/1.1 and a keep-alive header
   Message(<<GET \o <<" ", " ">> \o A_TXT \o <<" ">> \o HTTP11,
             HeaderLine(Connection, keep_alive)>>, <<>>)}

\* Bytes that parse_http_request rejects, beyond those above.
MoreMalformedData ==
  {\* a header line without a colon, HTTP/1.0
   Message(<<RequestLine(GET, A_TXT, HTTP10), <<"H", "o", "s", "t">>>>, <<>>),
   \* the version does not start with HTTP/
   Message(<<RequestLine(GET, A_TXT, <<"H", "T", "P", "/", "1", ".", "1">>)>>, <<>>),
   \* no request line before the blank line
   CRLF \o CRLF \o RequestLine(GET, A_TXT, HTTP11)}

\* Bytes that show what parse_http_request accepts and how it stores it.
ParserData ==
  {\* white space around a header name and its value, one header given
   \* twice, a header without a name, no blank line at the end
   JoinLines(<<RequestLine(GET, A_TXT, HTTP11),
               <<" ", "H", "o", "s", "t", " ", ":", " ", " ", "x", ":", "1", " ">>,
               <<"A", ":", "1">>, <<"A", ":", " ", "2">>, <<":", "y">>>>) \o CRLF,
   \* an empty path between two spaces
   Message(<<GET \o <<" ", " ">> \o HTTP11>>, <<>>),
   \* a byte that is no UTF-8 in the method
   Message(<<<<"G", InvalidByte, "E", "T", " ">> \o A_TXT \o <<" ">> \o HTTP11>>, <<>>),
   \* a request line and nothing else
   RequestLine(GET, A_TXT, HTTP11),
   \* the version in lower case
   Message(<<RequestLine(GET, A_TXT, <<"h", "t", "t", "p", "/", "1", ".", "1">>)>>, <<>>),
   \* a header line of one space
   Message(<<RequestLine(GET, A_TXT, HTTP11), <<" ">>>>, <<>>),
   \* two tokens
   Message(<<GET \o <<" ">> \o A_TXT>>, <<>>)}

\* A read that holds two requests, the second right behind the first.
PipelinedData ==
  {Message(<<RequestLine(GET, A_TXT, HTTP11)>>,
           Message(<<RequestLine(GET, <<"/", "m", "i", "s", "s", "i", "n", "g">>,
                                 HTTP11)>>, <<>>))}

\* The reads of a connection.
ConnData == KeepAliveData \cup StatusData \cup MalformedData \cup PipelinedData

\* What _format_date returns when a response is built.  The text goes into
\* the Date header and nothing else reads it.
Dates == {"Sun, 01 Nov 2026 11:30:10 GMT"}

(***************************************************************************)
(* State                                                                   *)
(***************************************************************************)

\* The connections the server may accept.
NumConns == 2
Conns == 1..NumConns

VARIABLES
  document_root,  \* HTTPServer.document_root
  clients,        \* HTTPServer.clients: the tasks of the live connections
  pc,             \* pc[c]: where the handle_client task of connection c is
  peer,           \* peer[c]: "sending", or "quiet" once the client sends no more
  read,           \* read[c]: what the latest await of reader.read produced
  request,        \* request[c]: the local request of handle_client
  out,            \* out[c]: the responses written and not yet drained
  error,          \* error[c]: handle_client has caught an exception (line 116)
  server,         \* HTTPServer.server: "listening", or "closed" after close()
  stop,           \* where stop() is, and the tasks its gather awaits
  cancel,         \* cancel[c]: task.cancel() was called and the task has
                  \* not yet been resumed with the CancelledError
  call            \* one request cycle taken alone (see RequestSpec)

vars == <<document_root, clients, pc, peer, read, request, out, error,
          server, stop, cancel, call>>

connVars == <<clients, pc, peer, read, request, out, error, server, stop, cancel>>

(*  pc[c] is one of
      "Idle"           not accepted yet
      "Accepted"       the task of handle_client is created and has not run
      "Reading"        at the await of line 82
      "Responding400"  at the drain of line 97, after a parse failure
      "Responding"     at the drain of line 105
      "Closing"        at the wait_closed of line 122
      "Closed"         handle_client has ended, line 126 was run
      "Cancelled"      handle_client has ended with the CancelledError raised
                       at line 122, line 126 was not run
    stop.pc is one of
      "idle"           stop() has not been called
      "wait_closed"    at the await of line 60
      "gather"         at the await of line 67, for the tasks stop.awaited
      "done"           stop() has returned  *)

NoCall == [stage |-> "none"]

ConnInit ==
  /\ clients = {}
  /\ pc = [c \in Conns |-> "Idle"]
  /\ peer = [c \in Conns |-> "sending"]
  /\ read = [c \in Conns |-> [kind |-> "pending"]]
  /\ request = [c \in Conns |-> None]
  /\ out = [c \in Conns |-> <<>>]
  /\ error = [c \in Conns |-> FALSE]
  /\ server = "listening"
  /\ stop = [pc |-> "idle", awaited |-> {}]
  /\ cancel = [c \in Conns |-> FALSE]

Init ==
  /\ document_root \in DocRoots
  /\ ConnInit
  /\ call = NoCall

(***************************************************************************)
(* src/server.py: HTTPServer.handle_client                                 *)
(***************************************************************************)

\* What parse_http_request makes of each of the reads.
Parsed == [d \in ConnData |-> parse_http_request(d)]

\* The bytes written for a read that parsed: to_bytes of handle_request's
\* response.
Answer ==
  [root \in DocRoots |->
    [d \in {x \in ConnData : Parsed[x].ok} |->
      [now \in Dates |->
        to_bytes(handle_request(Parsed[d].request, root, now))]]]

\* The bytes written for a read that did not parse.
Answer400 ==
  [now \in Dates |-> to_bytes(HTTPResponse(400, "Bad Request", now))]

\* A decision that leaves out the HTTP/1.0 rule of lines 112-114.
should_close_header_only(req) ==
  lower(dict_get(req.headers, Connection, <<>>)) = close

\* Lines 108-114: the loop is left after this response.
should_close(req) ==
  \/ lower(dict_get(req.headers, Connection, <<>>)) = close
  \/ /\ req.version = HTTP10
     /\ lower(dict_get(req.headers, Connection, <<>>)) # keep_alive

\* The listening server accepts connection c: asyncio creates the task that
\* will run handle_client (the callback given to start_server, line 45).
Accept(c) ==
  /\ server = "listening"
  /\ pc[c] = "Idle"
  /\ pc' = [pc EXCEPT ![c] = "Accepted"]
  /\ UNCHANGED <<document_root, server, stop, cancel, clients, peer, read,
                 request, out, error, call>>

\* The task runs for the first time: it adds itself to the live set and
\* goes on to its first read (lines 71-82).
Enter(c) ==
  /\ pc[c] = "Accepted"
  /\ clients' = clients \cup {c}
  /\ pc' = [pc EXCEPT ![c] = "Reading"]
  /\ UNCHANGED <<document_root, server, stop, cancel, peer, read, request,
                 out, error, call>>

\* The client of connection c stops sending.  The server sees this in its
\* next read only, so the step is taken while the task is reading.
PeerQuiet(c) ==
  /\ pc[c] = "Reading"
  /\ peer[c] = "sending"
  /\ peer' = [peer EXCEPT ![c] = "quiet"]
  /\ UNCHANGED <<document_root, server, stop, cancel, clients, pc, read, request, out, error, call>>

\* A task that task.cancel() was called on is resumed with the
\* CancelledError and with nothing else: its reads and drains end in no
\* other way (~cancel[c] below).

\* A handler that writes its answer twice.
ReadData_twice(c) ==
  /\ pc[c] = "Reading"
  /\ ~cancel[c]
  /\ peer[c] = "sending"
  /\ \E d \in ConnData, now \in Dates :
       /\ read' = [read EXCEPT ![c] = [kind |-> "data", bytes |-> d]]
       /\ IF Parsed[d].ok
          THEN /\ request' = [request EXCEPT ![c] = Some(Parsed[d].request)]
               /\ out' = [out EXCEPT ![c] =
                           @ \o <<Answer[document_root][d][now],
                                  Answer[document_root][d][now]>>]
               /\ pc' = [pc EXCEPT ![c] = "Responding"]
          ELSE /\ request' = [request EXCEPT ![c] = None]
               /\ out' = [out EXCEPT ![c] = Append(@, Answer400[now])]
               /\ pc' = [pc EXCEPT ![c] = "Responding400"]
  /\ UNCHANGED <<document_root, server, stop, cancel, clients, peer, error, call>>

\* The read returns bytes: they are parsed, answered, and the answer is
\* written; the task waits in drain.
ReadData(c) ==
  /\ pc[c] = "Reading"
  /\ ~cancel[c]
  /\ peer[c] = "sending"
  /\ \E d \in ConnData, now \in Dates :
       /\ read' = [read EXCEPT ![c] = [kind |-> "data", bytes |-> d]]
       /\ IF Parsed[d].ok
          THEN /\ request' = [request EXCEPT ![c] = Some(Parsed[d].request)]
               /\ out' = [out EXCEPT ![c] = Append(@, Answer[document_root][d][now])]
               /\ pc' = [pc EXCEPT ![c] = "Responding"]
          ELSE /\ request' = [request EXCEPT ![c] = None]
               /\ out' = [out EXCEPT ![c] = Append(@, Answer400[now])]
               /\ pc' = [pc EXCEPT ![c] = "Responding400"]
  /\ UNCHANGED <<document_root, server, stop, cancel, clients, peer, error, call>>

\* A timeout that is answered before the loop is left.
ReadTimeout_answered(c) ==
  /\ pc[c] = "Reading"
  /\ ~cancel[c]
  /\ read' = [read EXCEPT ![c] = [kind |-> "timeout"]]
  /\ out' = [out EXCEPT ![c] = Append(@, Answer400[CHOOSE now \in Dates : TRUE])]
  /\ pc' = [pc EXCEPT ![c] = "Closing"]
  /\ UNCHANGED <<document_root, server, stop, cancel, clients, peer, request, error, call>>

\* The read times out after 30 seconds: break.
ReadTimeout(c) ==
  /\ pc[c] = "Reading"
  /\ ~cancel[c]
  /\ read' = [read EXCEPT ![c] = [kind |-> "timeout"]]
  /\ pc' = [pc EXCEPT ![c] = "Closing"]
  /\ UNCHANGED <<document_root, server, stop, cancel, clients, peer, request, out, error, call>>

\* The read returns b'' because the client has closed: break.
ReadEOF(c) ==
  /\ pc[c] = "Reading"
  /\ ~cancel[c]
  /\ peer[c] = "quiet"
  /\ read' = [read EXCEPT ![c] = [kind |-> "eof"]]
  /\ pc' = [pc EXCEPT ![c] = "Closing"]
  /\ UNCHANGED <<document_root, server, stop, cancel, clients, peer, request, out, error, call>>

\* A server whose listener goes down with the connection that failed.
ReadError_closes_server(c) ==
  /\ pc[c] = "Reading"
  /\ ~cancel[c]
  /\ read' = [read EXCEPT ![c] = [kind |-> "error"]]
  /\ error' = [error EXCEPT ![c] = TRUE]
  /\ pc' = [pc EXCEPT ![c] = "Closing"]
  /\ server' = "closed"
  /\ UNCHANGED <<document_root, stop, cancel, clients, peer, request, out, call>>

\* The read raises (a connection reset): caught at line 116.
ReadError(c) ==
  /\ pc[c] = "Reading"
  /\ ~cancel[c]
  /\ read' = [read EXCEPT ![c] = [kind |-> "error"]]
  /\ error' = [error EXCEPT ![c] = TRUE]
  /\ pc' = [pc EXCEPT ![c] = "Closing"]
  /\ UNCHANGED <<document_root, server, stop, cancel, clients, peer, request, out, call>>

\* A handler that reads on after the 400 (continue where line 98 breaks).
Drain400Done_continue(c) ==
  /\ pc[c] = "Responding400"
  /\ ~cancel[c]
  /\ out' = [out EXCEPT ![c] = <<>>]
  /\ read' = [read EXCEPT ![c] = [kind |-> "pending"]]
  /\ pc' = [pc EXCEPT ![c] = "Reading"]
  /\ UNCHANGED <<document_root, server, stop, cancel, clients, peer, request, error, call>>

\* drain returns after the 400 of a parse failure: break.
Drain400Done(c) ==
  /\ pc[c] = "Responding400"
  /\ ~cancel[c]
  /\ out' = [out EXCEPT ![c] = <<>>]
  /\ pc' = [pc EXCEPT ![c] = "Closing"]
  /\ UNCHANGED <<document_root, server, stop, cancel, clients, peer, read, request, error, call>>

\* A handler that also leaves the loop after every response whose status
\* is 400 or more.
DrainDone_closes_on_error(c) ==
  /\ pc[c] = "Responding"
  /\ ~cancel[c]
  /\ out' = [out EXCEPT ![c] = <<>>]
  /\ IF \/ should_close(request[c][1])
        \/ out[c][Len(out[c])].header_lines[1] \notin
             {"HTTP/1.1 200 OK"}
     THEN /\ pc' = [pc EXCEPT ![c] = "Closing"]
          /\ UNCHANGED <<read, request>>
     ELSE /\ pc' = [pc EXCEPT ![c] = "Reading"]
          /\ read' = [read EXCEPT ![c] = [kind |-> "pending"]]
          /\ request' = [request EXCEPT ![c] = None]
  /\ UNCHANGED <<document_root, server, stop, cancel, clients, peer, error, call>>

\* drain returns after a response: the keep-alive decision.
DrainDone(c) ==
  /\ pc[c] = "Responding"
  /\ ~cancel[c]
  /\ out' = [out EXCEPT ![c] = <<>>]
  /\ IF should_close(request[c][1])
     THEN /\ pc' = [pc EXCEPT ![c] = "Closing"]
          /\ UNCHANGED <<read, request>>
     ELSE /\ pc' = [pc EXCEPT ![c] = "Reading"]
          /\ read' = [read EXCEPT ![c] = [kind |-> "pending"]]
          /\ request' = [request EXCEPT ![c] = None]
  /\ UNCHANGED <<document_root, server, stop, cancel, clients, peer, error, call>>

\* drain raises (the client is gone): caught at line 116; what was written
\* is lost with the transport.
DrainError(c) ==
  /\ pc[c] \in {"Responding", "Responding400"}
  /\ ~cancel[c]
  /\ out' = [out EXCEPT ![c] = <<>>]
  /\ error' = [error EXCEPT ![c] = TRUE]
  /\ pc' = [pc EXCEPT ![c] = "Closing"]
  /\ UNCHANGED <<document_root, server, stop, cancel, clients, peer, read, request, call>>

\* wait_closed returns or raises an Exception, which is passed over; the
\* task leaves the live set and ends, and its locals are gone.  The
\* transport has flushed what was still buffered.
CloseDone(c) ==
  /\ pc[c] = "Closing"
  /\ ~cancel[c]
  /\ clients' = clients \ {c}
  /\ pc' = [pc EXCEPT ![c] = "Closed"]
  /\ read' = [read EXCEPT ![c] = [kind |-> "pending"]]
  /\ request' = [request EXCEPT ![c] = None]
  /\ out' = [out EXCEPT ![c] = <<>>]
  /\ UNCHANGED <<document_root, server, stop, cancel, peer, error, call>>

\* The task is resumed with the CancelledError in its read or its drain
\* (lines 82, 97, 105).  CancelledError is no Exception: line 116 does not
\* catch it, the finally block closes the writer and waits at line 122.
Cancelled(c) ==
  /\ pc[c] \in {"Reading", "Responding400", "Responding"}
  /\ cancel[c]
  /\ cancel' = [cancel EXCEPT ![c] = FALSE]
  /\ read' = [read EXCEPT ![c] =
                IF pc[c] = "Reading" THEN [kind |-> "cancelled"] ELSE @]
  /\ pc' = [pc EXCEPT ![c] = "Closing"]
  /\ UNCHANGED <<document_root, server, stop, clients, peer, request, out,
                 error, call>>

\* The task is resumed with the CancelledError in the wait_closed of line
\* 122: line 123 does not catch it, it leaves the finally block before line
\* 126, and the task ends while it is still in the live set.
CancelledClosing(c) ==
  /\ pc[c] = "Closing"
  /\ cancel[c]
  /\ cancel' = [cancel EXCEPT ![c] = FALSE]
  /\ pc' = [pc EXCEPT ![c] = "Cancelled"]
  /\ read' = [read EXCEPT ![c] = [kind |-> "pending"]]
  /\ request' = [request EXCEPT ![c] = None]
  /\ out' = [out EXCEPT ![c] = <<>>]
  /\ UNCHANGED <<document_root, server, stop, clients, peer, error, call>>

\* What ends the await of line 82.
ReadEnds(c) == ReadData(c) \/ ReadTimeout(c) \/ ReadEOF(c) \/ ReadError(c)

Next ==
  \E c \in Conns :
    \/ Accept(c)
    \/ Enter(c)
    \/ PeerQuiet(c)
    \/ ReadData(c)
    \/ ReadTimeout(c)
    \/ ReadEOF(c)
    \/ ReadError(c)
    \/ Drain400Done(c)
    \/ DrainDone(c)
    \/ DrainError(c)
    \/ CloseDone(c)

Spec == Init /\ [][Next]_vars

\* asyncio.wait_for ends every read within 30 seconds, and the transport
\* closes: these awaits do not wait forever.
LiveSpec ==
  /\ Spec
  /\ \A c \in Conns : WF_vars(ReadEnds(c)) /\ WF_vars(CloseDone(c))

(***************************************************************************)
(* src/server.py: HTTPServer.stop                                          *)
(***************************************************************************)

\* stop() is called: the listening sockets are closed (line 59) and stop()
\* is at the await of line 60.
StopClose ==
  /\ stop.pc = "idle"
  /\ server' = "closed"
  /\ stop' = [stop EXCEPT !.pc = "wait_closed"]
  /\ UNCHANGED <<document_root, clients, pc, peer, read, request, out, error,
                 cancel, call>>

\* Server.wait_closed() returns: as in CPython 3.11 it does not wait for the
\* connections.  Every task of the live set is cancelled (lines 63-64), and
\* when there is one, gather is given the tasks of the live set (line 67).
StopCancel ==
  /\ stop.pc = "wait_closed"
  /\ cancel' = [c \in Conns |-> cancel[c] \/ c \in clients]
  /\ stop' = IF clients = {} THEN [pc |-> "done", awaited |-> {}]
             ELSE [pc |-> "gather", awaited |-> clients]
  /\ UNCHANGED <<document_root, clients, pc, peer, read, request, out, error,
                 server, call>>

\* Every task given to gather has ended: with return_exceptions=True gather
\* returns what they raised, and stop() returns.
StopDone ==
  /\ stop.pc = "gather"
  /\ \A c \in stop.awaited : pc[c] \in {"Closed", "Cancelled"}
  /\ stop' = [stop EXCEPT !.pc = "done"]
  /\ UNCHANGED <<document_root, clients, pc, peer, read, request, out, error,
                 server, cancel, call>>

\* The connections, stop(), and the cancellations stop() requests.
StopNext ==
  \/ Next
  \/ \E c \in Conns : Cancelled(c) \/ CancelledClosing(c)
  \/ StopClose
  \/ StopCancel
  \/ StopDone

StopSpec == Init /\ [][StopNext]_vars

\* The event loop resumes every task that is ready: a task that was
\* cancelled, one that was just created, and stop() itself when what it
\* awaits is done; reads and closes end as in LiveSpec.
StopLiveSpec ==
  /\ StopSpec
  /\ \A c \in Conns :
       /\ WF_vars(Enter(c))
       /\ WF_vars(ReadEnds(c))
       /\ WF_vars(CloseDone(c))
       /\ WF_vars(Cancelled(c))
       /\ WF_vars(CancelledClosing(c))
  /\ WF_vars(StopCancel)
  /\ WF_vars(StopDone)

(***************************************************************************)
(* One request cycle taken alone: the calls handle_client makes between    *)
(* a read and the write of its answer (lines 91-104)                       *)
(***************************************************************************)

\* The bytes of the read.
RequestData == PathData \cup ConnData \cup MoreMalformedData \cup ParserData

\* Responses a caller builds and hands to to_bytes: a body without and with
\* a Content-Length, an error without a body, an error that declares its
\* length, a status without a message of its own.
BuiltResponses(now) ==
  {[HTTPResponse(200, "", now) EXCEPT !.body = Some("hello")],
   add_header([HTTPResponse(200, "", now) EXCEPT !.body = Some("hello")],
              "Content-Length", "5"),
   HTTPResponse(404, "", now),
   add_header(HTTPResponse(404, "", now), "Content-Length", "0"),
   HTTPResponse(204, "", now)}

(*  call.stage is one of
      "read"     data holds the bytes of the read (line 82)
      "parsed"   request holds what parse_http_request returned (line 92)
      "handled"  response holds the response to serialize (lines 95, 101)
      "written"  given holds the response as it was handed to to_bytes,
                 response what to_bytes left of it, wire the bytes (line 104) *)
Call(stage, data, now, req, given, response, wire) ==
  [stage |-> stage, data |-> data, now |-> now, request |-> req,
   given |-> given, response |-> response, wire |-> wire]

RequestInit ==
  /\ document_root \in DocRoots
  /\ ConnInit
  /\ \E now \in Dates :
       \/ \E d \in RequestData :
            call = Call("read", d, now, None, None, None, None)
       \/ \E r \in BuiltResponses(now) :
            call = Call("handled", <<>>, now, None, None, Some(r), None)

\* Lines 91-96: parse_http_request, and the 400 response when it raises.
CallParse ==
  /\ call.stage = "read"
  /\ LET parsed == parse_http_request(call.data) IN
       call' = IF parsed.ok
               THEN [call EXCEPT !.stage = "parsed", !.request = Some(parsed.request)]
               ELSE [call EXCEPT !.stage = "handled",
                       !.response = Some(HTTPResponse(400, "Bad Request", call.now))]
  /\ UNCHANGED <<document_root, connVars>>

\* Line 101: handle_request.
CallHandle ==
  /\ call.stage = "parsed"
  /\ call' = [call EXCEPT !.stage = "handled",
                !.response = Some(handle_request(call.request[1], document_root, call.now))]
  /\ UNCHANGED <<document_root, connVars>>

\* Lines 97 and 104: to_bytes.
CallToBytes ==
  /\ call.stage = "handled"
  /\ call' = [call EXCEPT !.stage = "written",
                !.given = call.response,
                !.response = Some(to_bytes_self(call.response[1])),
                !.wire = Some(to_bytes(call.response[1]))]
  /\ UNCHANGED <<document_root, connVars>>

RequestNext == CallParse \/ CallHandle \/ CallToBytes

RequestSpec == RequestInit /\ [][RequestNext]_vars

(***************************************************************************)
(* Properties of one request cycle (RequestSpec)                           *)
(***************************************************************************)

Range(s) == {s[i] : i \in DOMAIN s}

\* handle_request has answered the parsed request of the call
Handled == call.stage = "handled" /\ call.request # None

\* to_bytes has serialized the answer to the parsed request of the call
HandledAndWritten == call.stage = "written" /\ call.request # None

TheRequest == call.request[1]
TheResponse == call.response[1]
TheWire == call.wire[1]

DotDotSlash == <<".", ".", "/">>
IndexHtml == <<"i", "n", "d", "e", "x", ".", "h", "t", "m", "l">>

\* The percent-decoded path of the request, and that path without its query
\* string.
Decoded == url_decode(TheRequest.path)
CleanPath == strip_query(Decoded.value)

\* Where the path of the request leads: the document root joined with the
\* path and resolved, links followed.
Target == resolve(joinpath(document_root, strip_leading_slash(CleanPath)))

\* p lies in the directory tree of root: root is a prefix of its components
InTree(p, root) == Len(p) >= Len(root) /\ SubSeq(p, 1, Len(root)) = root

\* The path of the request resolves under the document root to an existing
\* regular file.
RegularFileUnderRoot ==
  Decoded.ok /\ InTree(Target, document_root) /\ lstat(Target).kind = "file"

\* ... and no rule of the resolver turns the request away before the file is
\* read, and the read succeeds.
Servable ==
  /\ RegularFileUnderRoot
  /\ ~contains(CleanPath, DotDotSlash)
  /\ ~endswith(CleanPath, <<"/">>)
  /\ lstat(Target).read = "ok"

\* The response is a 200 that carries the bytes of the file at Target.
CarriesTarget(response) ==
  /\ response.status_code = 200
  /\ response.body = Some(lstat(Target).content)
  /\ dict_get(response.headers, "Content-Length", "") =
       ToString(Len(lstat(Target).content))

\* C1, as stated: every GET whose path resolves under the document root to
\* an existing regular file is answered 200 with the bytes of the file as
\* body and their number as Content-Length.
C1_Original ==
  (Handled /\ TheRequest.method = GET /\ RegularFileUnderRoot)
    => CarriesTarget(TheResponse)

\* C1, amended: every GET whose decoded path, its query string stripped,
\* holds no "../" and no trailing "/", and resolves under the document root
\* to an existing regular file that can be read, is answered 200 with the
\* bytes of the file as body and their number as Content-Length.
C1_GetServesFile ==
  (Handled /\ TheRequest.method = GET /\ Servable)
    => CarriesTarget(TheResponse)

\* GET /a.txt has been answered with the five bytes of the file.
C1_Witness ==
  /\ Handled
  /\ TheRequest.method = GET
  /\ TheRequest.path = A_TXT
  /\ Servable
  /\ TheResponse.status_code = 200
  /\ TheResponse.body = Some("hello")
  /\ dict_get(TheResponse.headers, "Content-Length", "") = "5"

\* C2, as stated: every GET or HEAD whose percent-decoded path holds "../"
\* anywhere is answered 403.
C2_Original ==
  (Handled /\ TheRequest.method \in {GET, HEAD} /\ Decoded.ok
     /\ contains(Decoded.value, DotDotSlash))
    => TheResponse.status_code = 403

\* C2, amended: every GET or HEAD whose percent-decoded path holds "../"
\* before its first "?" is answered 403, whether or not a file is there.
C2_TraversalForbidden ==
  (Handled /\ TheRequest.method \in {GET, HEAD} /\ Decoded.ok
     /\ contains(CleanPath, DotDotSlash))
    => TheResponse.status_code = 403

\* GET /sub/../a.txt, which leads to an existing file, has been answered 403.
C2_Witness ==
  /\ Handled
  /\ TheRequest.method = GET
  /\ TheRequest.path = <<"/", "s", "u", "b", "/", ".", ".", "/", "a", ".", "t", "x", "t">>
  /\ RegularFileUnderRoot
  /\ TheResponse.status_code = 403

\* The file whose bytes a 200 carries: the target, or the index.html of a
\* target that is a directory, links followed.
ServedFile ==
  IF lstat(Target).kind = "dir" THEN resolve(Append(Target, IndexHtml)) ELSE Target

\* C3, containment: no 200 response carries the bytes of a file that lies
\* outside the directory tree of the document root.
C3_Containment ==
  (Handled /\ TheResponse.status_code = 200)
    => InTree(ServedFile, document_root)

\* The header map without its Date entry.
HeaderMap(response) ==
  {kv \in Range(response.headers) : kv[1] # "Date"}

\* What handle_request answers to the same request with method GET.
GetTwin ==
  handle_request([TheRequest EXCEPT !.method = GET], document_root, call.now)

\* The HEAD answer has the status and the header map of the GET answer, and
\* its bytes end with the blank line.
HeadLikeGet ==
  /\ call.given[1].status_code = GetTwin.status_code
  /\ HeaderMap(call.given[1]) = HeaderMap(GetTwin)
  /\ TheWire.body = ""

\* C4, as stated: for every existing regular file under the document root,
\* HEAD and GET give the same status and the same header map (Date aside),
\* and the serialized HEAD response has no body bytes.
C4_Original ==
  (HandledAndWritten /\ TheRequest.method = HEAD /\ RegularFileUnderRoot)
    => HeadLikeGet

\* C4, amended: for every existing regular file under the document root
\* that the handler serves (it can be read, and the decoded path, its query
\* string stripped, holds no "../" and no trailing "/"), HEAD and GET give
\* the same status and the same header map (Date aside), and the serialized
\* HEAD response has no body bytes.
C4_HeadMatchesGet ==
  (HandledAndWritten /\ TheRequest.method = HEAD /\ Servable)
    => HeadLikeGet

\* HEAD /a.txt has been serialized: 200, the length of the file declared,
\* nothing after the blank line.
C4_Witness ==
  /\ HandledAndWritten
  /\ TheRequest.method = HEAD
  /\ TheRequest.path = A_TXT
  /\ Servable
  /\ call.given[1].status_code = 200
  /\ "Content-Length: 5" \in Range(TheWire.header_lines)
  /\ TheWire.body = ""

\* C5: every parsed request whose method is neither GET nor HEAD is
\* answered 405, whatever its path.
C5_MethodNotAllowed ==
  (Handled /\ TheRequest.method \notin {GET, HEAD})
    => TheResponse.status_code = 405

\* POST /%ff, whose path does not decode, has been answered 405.
C5_Witness ==
  /\ Handled
  /\ TheRequest.method = POST
  /\ TheRequest.path = <<"/", "%", "f", "f">>
  /\ ~Decoded.ok
  /\ TheResponse.status_code = 405

\* C9: whenever the bytes to_bytes returns carry a body, their header block
\* holds a Content-Length header whose value is the number of body bytes.
C9_ContentLengthOnWire ==
  (call.stage = "written" /\ TheWire.body # "")
    => ("Content-Length: " \o ToString(Len(TheWire.body)))
         \in Range(TheWire.header_lines)

\* The body to_bytes synthesizes for an error response.
ErrorBody(response) ==
  "<html><body><h1>" \o ToString(response.status_code) \o " "
    \o response.status_message \o "</h1></body></html>"

\* C10: for every response with status >= 400, no body and no
\* Content-Length, the bytes to_bytes returns are a header block that
\* declares Content-Type: text/html, the blank line, and the synthesized
\* body.
C10_ErrorResponseOnWire ==
  (call.stage = "written" /\ call.given[1].status_code >= 400
     /\ call.given[1].body = None
     /\ ~dict_has(call.given[1].headers, "Content-Length"))
    => /\ "Content-Type: text/html" \in Range(TheWire.header_lines)
       /\ TheWire.body = ErrorBody(call.given[1])

\* The status the rules of the path resolver give the request, the first
\* rule that applies deciding.
RuleStatus ==
  IF ~Decoded.ok THEN 400
  ELSE IF contains(CleanPath, DotDotSlash) THEN 403
  ELSE IF /\ endswith(strip_leading_slash(CleanPath), <<"/">>)
          /\ lstat(Target).kind # "dir" THEN 404
  ELSE IF ~startswith(str(Target), str(document_root)) THEN 403
  ELSE IF lstat(Target).kind = "missing" THEN 404
  ELSE IF /\ lstat(Target).kind = "dir"
          /\ stat(Append(Target, IndexHtml)).kind # "file" THEN 404
  ELSE LET final == IF lstat(Target).kind = "dir"
                    THEN stat(Append(Target, IndexHtml))
                    ELSE lstat(Target)
       IN  IF final.kind # "file" THEN 403
           ELSE IF final.read = "PermissionError" THEN 403
           ELSE IF final.read # "ok" THEN 500
           ELSE 200

\* The decoded path holds a null character.
NullInPath == Decoded.ok /\ \E i \in DOMAIN CleanPath : CleanPath[i] = chr(0)

\* Apart from paths with a null character, the status of the answer to a
\* GET or HEAD is the one the rules give.
RuleOrderWithoutNull ==
  (Handled /\ TheRequest.method \in {GET, HEAD} /\ ~NullInPath)
    => TheResponse.status_code = RuleStatus

\* C17: the status of the answer to a GET or HEAD request is that of the
\* first rule that applies, in the order: decode failure 400, "../" 403,
\* trailing slash on what is no directory 404, resolved path not prefixed by
\* the document root 403, resolved path missing 404, directory without a
\* regular index.html 404, final candidate no regular file 403, permission
\* error on read 403, other read failure 500, otherwise 200.
C17_ResolverRuleOrder ==
  (Handled /\ TheRequest.method \in {GET, HEAD})
    => TheResponse.status_code = RuleStatus

\* The path of the request resolves under the document root to a directory.
DirectoryUnderRoot ==
  Decoded.ok /\ InTree(Target, document_root) /\ lstat(Target).kind = "dir"

\* What index.html in that directory is, links followed.
IndexNode == stat(Append(Target, IndexHtml))

\* The answer the claim gives for a directory: the index file when it is a
\* regular file, and otherwise status 404 with the message "Forbidden".
DirectoryAnswer(response) ==
  IF IndexNode.kind = "file"
  THEN response.status_code = 200 /\ response.body = Some(IndexNode.content)
  ELSE response.status_code = 404 /\ response.status_message = "Forbidden"

\* C11, as stated: every GET whose path resolves under the document root to
\* a directory is answered 200 with the content of the regular file
\* index.html of that directory, or 404 "Forbidden" when there is none.
C11_Original ==
  (Handled /\ TheRequest.method = GET /\ DirectoryUnderRoot)
    => DirectoryAnswer(TheResponse)

\* C11, amended: every GET whose decoded path, its query string stripped,
\* holds no "../" and resolves under the document root to a directory is
\* answered 200 with the content of index.html when that is, links
\* followed, a regular file whose read succeeds, and 404 with the message
\* "Forbidden" when the directory has no index.html that is a regular file.
C11_DirectoryIndex ==
  (Handled /\ TheRequest.method = GET /\ DirectoryUnderRoot
     /\ ~contains(CleanPath, DotDotSlash)
     /\ (IndexNode.kind = "file" => IndexNode.read = "ok"))
    => DirectoryAnswer(TheResponse)

\* GET /d/ under /srv/foo, a directory without index.html, has been
\* answered 404 "Forbidden".
C11_Witness ==
  /\ Handled
  /\ TheRequest.method = GET
  /\ TheRequest.path = <<"/", "d", "/">>
  /\ DirectoryUnderRoot
  /\ IndexNode.kind = "missing"
  /\ TheResponse.status_code = 404
  /\ TheResponse.status_message = "Forbidden"

\* The lines of the header section of the bytes: what comes before the
\* first blank line, as text.
HeaderSectionLines(data) ==
  split(decode_ignore(split1(data, CRLF \o CRLF)[1]), CRLF)

\* What follows the first blank line.
BodySection(data) ==
  IF contains(data, CRLF \o CRLF) THEN split1(data, CRLF \o CRLF)[2] ELSE <<>>

\* The tokens of the first line.
RequestLineTokens(data) == split(HeaderSectionLines(data)[1], <<" ">>)

\* The condition of the claim.
WellFormed(data) ==
  /\ Len(RequestLineTokens(data)) = 3
  /\ startswith(RequestLineTokens(data)[3], <<"H", "T", "T", "P", "/">>)
  /\ \A i \in 2..Len(HeaderSectionLines(data)) :
       HeaderSectionLines(data)[i] # <<>>
         => ":" \in Range(HeaderSectionLines(data)[i])

\* text without white space at its ends
Trimmed(text) ==
  text = <<>> \/ (text[1] \notin Whitespace /\ text[Len(text)] \notin Whitespace)

\* The parser has been given the bytes of a read.
ParseDone == call.stage # "read" /\ call.data # <<>>

\* The headers are the header lines: every line gives its trimmed name the
\* trimmed value of the last line with that name, and every stored name
\* comes from a line.
HeadersStored(data, headers) ==
  LET lines == HeaderSectionLines(data)
      name(i)  == strip(split1(lines[i], <<":">>)[1])
      value(i) == strip(split1(lines[i], <<":">>)[2])
      given == {i \in 2..Len(lines) : lines[i] # <<>>}
  IN  /\ \A i \in given :
           (\A j \in given : name(j) = name(i) => j <= i)
             => <<name(i), value(i)>> \in Range(headers)
      /\ \A h \in Range(headers) :
           /\ \E i \in given : name(i) = h[1]
           /\ Trimmed(h[1]) /\ Trimmed(h[2])
      /\ \A i, j \in DOMAIN headers : headers[i][1] = headers[j][1] => i = j

\* C18: parse_http_request succeeds exactly when the first line of the
\* header section splits on single spaces into three tokens of which the
\* third starts with "HTTP/" and every later non-empty line holds a colon,
\* and fails otherwise; on success the tokens are the method, the path and
\* the version, the header names and values are stored trimmed, and an
\* empty body is stored as None.
C18_ParserAccepts ==
  ParseDone =>
    /\ (call.request # None) <=> WellFormed(call.data)
    /\ call.request # None =>
         /\ <<TheRequest.method, TheRequest.path, TheRequest.version>>
              = RequestLineTokens(call.data)
         /\ HeadersStored(call.data, TheRequest.headers)
         /\ TheRequest.body = IF BodySection(call.data) = <<>> THEN None
                              ELSE Some(BodySection(call.data))

\* The request with white space around a header's name and value has been
\* parsed: the name Host and the value x:1 are stored trimmed, the header
\* given twice has its last value, and there is no body.
C18_Witness ==
  /\ call.stage = "parsed"
  /\ <<" ", "H", "o", "s", "t", " ", ":", " ", " ", "x", ":", "1", " ">>
       \in Range(HeaderSectionLines(call.data))
  /\ dict_get(TheRequest.headers, <<"H", "o", "s", "t">>, <<>>) = <<"x", ":", "1">>
  /\ dict_get(TheRequest.headers, <<"A">>, <<>>) = <<"2">>
  /\ TheRequest.body = None

(***************************************************************************)
(* Properties of the connection handler (Spec, LiveSpec)                   *)
(***************************************************************************)

\* The step takes connection c out of the await of line 82.
ReadReturns(c) == pc[c] = "Reading" /\ pc'[c] # "Reading"

\* C6: when the bytes of a read do not parse, the handler writes one
\* response, with status 400, and from the drain of that response goes to
\* Closing and from there to Closed only: no read and no response follow.
C6_MalformedClosesAfter400 ==
  [][\A c \in Conns :
       /\ (ReadReturns(c) /\ read'[c].kind = "data"
             /\ ~parse_http_request(read'[c].bytes).ok)
            => (/\ pc'[c] = "Responding400"
                /\ Len(out'[c]) = Len(out[c]) + 1
                /\ out'[c][Len(out'[c])].header_lines[1] = "HTTP/1.1 400 Bad Request")
       /\ (pc[c] = "Responding400" /\ pc'[c] # "Responding400")
            => (pc'[c] = "Closing" /\ read'[c] = read[c] /\ out'[c] = <<>>)
       /\ (pc[c] = "Closing")
            => (pc'[c] \in {"Closing", "Closed"} /\ out'[c] = out[c])
       /\ (pc[c] = "Closed")
            => (pc'[c] = "Closed" /\ out'[c] = out[c])
  ]_vars

\* A read that did not parse, although it named HTTP/1.1 and asked for
\* keep-alive, has been answered, and the connection is in Closing.
C6_Witness ==
  \E c \in Conns :
    /\ pc[c] = "Closing"
    /\ ~error[c]
    /\ read[c].kind = "data"
    /\ ~parse_http_request(read[c].bytes).ok
    /\ contains(read[c].bytes, HTTP11)
    /\ contains(read[c].bytes, keep_alive)
    /\ out[c] = <<>>

\* The value of the header named Connection, in lower case ('' without it).
ConnectionValue(req) == lower(dict_get(req.headers, Connection, <<>>))

\* The rule of the keep-alive decision.
ClosesAfter(req) ==
  \/ ConnectionValue(req) = close
  \/ (req.version = HTTP10 /\ ConnectionValue(req) # keep_alive)

\* C7: when the response to a parsed request has been written, the
\* connection goes to Closing if the rule of the keep-alive decision holds
\* of the request, and otherwise back to Reading, still a live connection.
C7_KeepAliveDecision ==
  [][\A c \in Conns :
       (pc[c] = "Responding" /\ pc'[c] # "Responding" /\ ~error'[c])
         => /\ pc'[c] \in {"Closing", "Reading"}
            /\ (pc'[c] = "Closing") <=> ClosesAfter(request[c][1])
            /\ (pc'[c] = "Reading") => (c \in clients' /\ read'[c].kind = "pending")
  ]_vars

\* An HTTP/1.0 request without a Connection header has been answered, and
\* the connection is in Closing.
C7_Witness ==
  \E c \in Conns :
    /\ pc[c] = "Closing"
    /\ ~error[c]
    /\ request[c] # None
    /\ request[c][1].version = HTTP10
    /\ ~dict_has(request[c][1].headers, Connection)

\* C8: a read that times out, or that returns no bytes because the peer has
\* closed, takes the connection to Closing and nothing is written for it;
\* and a connection in Reading whose peer sends nothing more is closed in
\* the end.
C8_QuietReadCloses ==
  /\ [][\A c \in Conns :
          (ReadReturns(c) /\ read'[c].kind \in {"timeout", "eof"})
            => (pc'[c] = "Closing" /\ out[c] = <<>> /\ out'[c] = <<>>)
       ]_vars
  /\ \A c \in Conns : (pc[c] = "Reading" /\ peer[c] = "quiet") ~> (pc[c] = "Closed")

\* The read of a connection whose peer is quiet has timed out: the
\* connection is in Closing, nothing written.
C8_Witness ==
  \E c \in Conns :
    /\ pc[c] = "Closing"
    /\ peer[c] = "quiet"
    /\ read[c].kind = "timeout"
    /\ out[c] = <<>>


\* The status lines of the responses handle_request builds for a request
\* it turns away.
ErrorStatusLines ==
  {"HTTP/1.1 400 Bad Request", "HTTP/1.1 403 Forbidden",
   "HTTP/1.1 404 Not Found", "HTTP/1.1 405 Method Not Allowed",
   "HTTP/1.1 500 Internal Server Error"}

\* The status line of the response connection c waits to see drained.
DrainingStatus(c) == out[c][Len(out[c])].header_lines[1]

\* The drain of line 105 returns.
DrainReturns(c) ==
  pc[c] = "Responding" /\ pc'[c] # "Responding" /\ ~error'[c] /\ ~cancel[c]

\* C16: when the response to a parsed request has been drained, whatever its
\* status (405, 400, 403, 404 or 500 in particular), the handler is back at
\* its read if the request is HTTP/1.1 and its Connection header does not
\* say close, and it leaves the loop only if the keep-alive decision says
\* so.
C16_StatusNeverCloses ==
  [][\A c \in Conns :
       DrainReturns(c) =>
         /\ \A st \in ErrorStatusLines :
              (/\ DrainingStatus(c) = st
               /\ request[c][1].version = HTTP11
               /\ ConnectionValue(request[c][1]) # close)
                => (pc'[c] = "Reading" /\ c \in clients')
         /\ pc'[c] = "Closing" => ClosesAfter(request[c][1])
  ]_vars

\* The 400 for a path that does not percent-decode, asked for by an HTTP/1.1
\* request without a Connection header, is being drained and the drain can
\* return.
C16_Witness ==
  \E c \in Conns :
    /\ pc[c] = "Responding"
    /\ DrainingStatus(c) = "HTTP/1.1 400 Bad Request"
    /\ request[c][1].version = HTTP11
    /\ ~dict_has(request[c][1].headers, Connection)
    /\ ENABLED DrainDone(c)

\* C19: on every connection a read that returns bytes is followed by the
\* write of exactly one response, and nothing else writes: while a read is
\* awaited no response is left to drain, a write happens only in the step
\* in which a read returns bytes, and nothing is written once the
\* connection is in Closing.
C19_ReadWriteAlternation ==
  /\ [](\A c \in Conns : pc[c] \in {"Idle", "Accepted", "Reading"} => out[c] = <<>>)
  /\ [][\A c \in Conns :
          /\ (ReadReturns(c) /\ read'[c].kind = "data")
               => (/\ out'[c] = Append(out[c], out'[c][Len(out'[c])])
                   /\ pc'[c] \in {"Responding", "Responding400"})
          /\ Len(out'[c]) > Len(out[c])
               => (ReadReturns(c) /\ read'[c].kind = "data")
          /\ pc[c] \in {"Closing", "Closed", "Cancelled"}
               => Len(out'[c]) <= Len(out[c])
       ]_vars

\* A read that held two requests has been answered with one response, the
\* 200 for the first; the second request is the body of the first.
C19_Witness ==
  \E c \in Conns :
    /\ pc[c] = "Responding"
    /\ read[c].kind = "data"
    /\ read[c].bytes \in PipelinedData
    /\ request[c][1].body # None
    /\ startswith(request[c][1].body[1], GET)
    /\ Len(out[c]) = 1
    /\ out[c][1].header_lines[1] = "HTTP/1.1 200 OK"

\* C20: every response written on a connection has the line
\* "Connection: keep-alive" in its header block, whatever the keep-alive
\* decision: the 400 after a parse failure and the responses to requests
\* after which the handler closes have it too.
C20_AlwaysKeepAliveHeader ==
  \A c \in Conns : \A i \in DOMAIN out[c] :
    "Connection: keep-alive" \in Range(out[c][i].header_lines)

\* The response to a request with Connection: close is being drained: it
\* declares keep-alive, and the handler will close.
C20_Witness ==
  \E c \in Conns :
    /\ pc[c] = "Responding"
    /\ ConnectionValue(request[c][1]) = close
    /\ Len(out[c]) = 1
    /\ "Connection: keep-alive" \in Range(out[c][1].header_lines)

\* The status line of the response connection c has just written.
WrittenStatus(c) == out'[c][Len(out'[c])].header_lines[1]

\* The step is an error in the cycle of connection c: a read that times out
\* or raises, bytes that do not parse, a request the handler answers 500, a
\* drain that raises.
ErrorStep(c) ==
  \/ /\ pc[c] = "Reading"
     /\ \/ read'[c].kind \in {"timeout", "error"}
        \/ pc'[c] = "Responding400"
        \/ /\ pc'[c] = "Responding"
           /\ WrittenStatus(c) = "HTTP/1.1 500 Internal Server Error"
  \/ /\ pc[c] \in {"Responding", "Responding400"}
     /\ ~error[c] /\ error'[c]

\* The step leaves alone what belongs to the connections other than c.
OthersUnchanged(c) ==
  \A o \in Conns \ {c} :
    /\ pc'[o] = pc[o]
    /\ peer'[o] = peer[o]
    /\ read'[o] = read[o]
    /\ request'[o] = request[o]
    /\ out'[o] = out[o]
    /\ error'[o] = error[o]
    /\ cancel'[o] = cancel[o]
    /\ (o \in clients') = (o \in clients)

\* The listening server accepts every connection that has not been accepted.
Accepting == \A c \in Conns : pc[c] = "Idle" => ENABLED Accept(c)

\* C14: a step that is an error in the cycle of one connection (a parse
\* failure, a handler failure, a write failure, a timeout, a peer reset)
\* changes nothing of any other connection, neither its state nor its
\* membership of the live set, nor the listener; and a server that listens
\* accepts.
C14_ErrorIsolation ==
  /\ [][\A c \in Conns : ErrorStep(c) =>
          OthersUnchanged(c) /\ server' = server]_vars
  /\ [](server = "listening" => Accepting)

\* The read of connection 1 has raised while connection 2 waits in the drain
\* of a response, in the live set, and connection 2 can go on.
C14_Witness ==
  /\ error[1] /\ read[1].kind = "error" /\ pc[1] = "Closing"
  /\ pc[2] = "Responding" /\ request[2] # None /\ out[2] # <<>>
  /\ 2 \in clients
  /\ server = "listening"
  /\ ENABLED DrainDone(2)

(***************************************************************************)
(* Properties of shutdown (StopSpec)                                       *)
(***************************************************************************)

\* stop() has been called
ShutdownBegun == stop.pc # "idle"

\* The task of connection c has ended.
Terminated(c) == pc[c] \in {"Closed", "Cancelled"}

\* The step is the one in which stop() cancels the tasks (lines 63-64).
CancelStep == stop.pc = "wait_closed" /\ stop'.pc # "wait_closed"

\* No task is cancelled while the server listens.
CancelAfterClose == (\E c \in Conns : cancel[c]) => server = "closed"

\* The step that cancels leaves every task of the live set cancelled.
CancelsLiveSet == CancelStep => \A c \in clients : cancel'[c]

\* After stop() was called a step neither accepts a connection nor adds a
\* task to the live set.
NoLateConnection ==
  ShutdownBegun =>
    /\ \A c \in Conns : pc[c] = "Idle" => pc'[c] = "Idle"
    /\ clients' \subseteq clients

\* C12: in stop() the listener stops accepting before any task is
\* cancelled, the cancelling step cancels every task then in the live set,
\* and once stop() has been called no connection is accepted and no task is
\* added to the live set.
C12_ShutdownOrdering ==
  [](CancelAfterClose) /\ [][CancelsLiveSet /\ NoLateConnection]_vars


\* Once stop() has been called it returns.
StopCompletes == ShutdownBegun ~> stop.pc = "done"

\* When stop() has returned, every connection that was accepted has a task
\* that has ended.
StoppedAllEnded ==
  stop.pc = "done" => \A c \in Conns : pc[c] = "Idle" \/ Terminated(c)

\* C13: once stop() has been called it returns, whatever the connections
\* are doing, and when it has returned every connection task has ended.
\* (stop() raises nothing: gather is called with return_exceptions=True.)
C13_ShutdownLiveness == StopCompletes /\ [](StoppedAllEnded)


\* C15: the live set holds no task that has ended, and it is empty when
\* every connection that was accepted has ended, however its handler ended:
\* keep-alive close, parse failure, timeout, peer close, error, or a
\* cancellation at any of its awaits.
C15_LiveSetRegistry ==
  /\ \A c \in clients : ~Terminated(c)
  /\ (\A c \in Conns : pc[c] = "Idle" \/ Terminated(c)) => clients = {}

====
